---- MODULE Spec2Model ----
(***************************************************************************)
(* The agent pipeline of app.py: the Streamlit chat loop (main), one graph *)
(* invocation per user input (run_graph), the parent graph                 *)
(* START -> supervisor -> formatter_agent -> END (build_parent_graph), the *)
(* supervisor sub-graph with its two work agents                           *)
(* (create_supervisor_runnable) and the formatter's rendering rules        *)
(* (create_formatter_agent).                                               *)
(*                                                                         *)
(* The chat models are external and non-deterministic.  Every model call   *)
(* is a choice over the outcomes the configured agent can produce: the     *)
(* supervisor hands off to a work agent or ends, a work agent ends with a  *)
(* RESULT_JSON block (well-formed or not) or with a question, and the      *)
(* formatter follows the rules of its prompt where the prompt has a rule   *)
(* and produces any text where it has none.                                *)
(*                                                                         *)
(* A text (a Python str) is a sequence of tokens; concatenation is \o.     *)
(***************************************************************************)
EXTENDS Naturals, Sequences, FiniteSets

VARIABLES
  session_messages,  \* st.session_state.messages: the chat history of the UI
  messages,          \* MessagesState.messages of the current graph invocation
  active,            \* nodes of the parent graph scheduled for the next step
  supNode,           \* position inside the supervisor sub-graph
  ran,               \* parent nodes that have completed in this invocation
  dispatched,        \* work agents the supervisor handed off to, in order
  reply              \* the value run_graph returned for this input

vars == <<session_messages, messages, active, supNode, ran, dispatched, reply>>

\* ---------------------------------------------------------------- bounds

MaxTurns == 2
MaxDispatch == 3
MaxParts == 3

\* ------------------------------------------------------------ data model

\* The text typed in the n-th turn of the session.  The pipeline never looks
\* into it; the turns' texts differ so that a turn's log shows whose it is.
UserTextOf(n) ==
  CASE n = 1 -> "u1"
    [] n = 2 -> "u2"
    [] n = 3 -> "u3"
    [] OTHER -> "u4"

Workers == {"research_agent", "calendar_agent"}

NoEnv == [agent |-> "none", op |-> "none", ok |-> FALSE, data |-> "null"]

Envelope(agent, op, ok, data) == [agent |-> agent, op |-> op, ok |-> ok, data |-> data]

CalendarOps == {"create", "update", "delete", "move", "search", "info", "error"}

DataShapes == {"null", "empty", "objects", "object"}

SchemaEnvelopes ==
  {Envelope("calendar", op, ok, d) : op \in CalendarOps, ok \in BOOLEAN, d \in DataShapes}
  \cup {Envelope("research", "search", ok, d) : ok \in BOOLEAN, d \in DataShapes}

Tok(k, env) == [k |-> k, env |-> env]

StrContent(text) == [islist |-> FALSE, text |-> text, parts |-> <<>>]

ListContent(parts) == [islist |-> TRUE, text |-> <<>>, parts |-> parts]

Message(id, type, name, content) ==
  [id |-> id, type |-> type, name |-> name, content |-> content]

HumanMessage(id, user_text) ==
  Message(id, "human", "user", StrContent(<<Tok(user_text, NoEnv)>>))

AIMessage(id, name, text) == Message(id, "ai", name, StrContent(text))

ToolMessage(id, name, text) == Message(id, "tool", name, StrContent(text))

IsPrefix(s, t) == Len(s) <= Len(t) /\ SubSeq(t, 1, Len(s)) = s

\* ------------------------------------------------ MessagesState reducer

IndexOfId(left, id) ==
  IF \E i \in 1..Len(left) : left[i].id = id
  THEN CHOOSE i \in 1..Len(left) : left[i].id = id
  ELSE 0

MergeOne(left, m) ==
  IF IndexOfId(left, m.id) = 0
  THEN Append(left, m)
  ELSE [left EXCEPT ![IndexOfId(left, m.id)] = m]

RECURSIVE AddMessages(_, _)
AddMessages(left, right) ==
  IF right = <<>> THEN left
  ELSE AddMessages(MergeOne(left, Head(right)), Tail(right))

\* ------------------------------------------------------- parent graph

NodeSTART == "__start__"

NodeEND == "__end__"

EdgesFormatterFromStart ==
  {<<NodeSTART, "supervisor">>, <<NodeSTART, "formatter_agent">>,
   <<"supervisor", "formatter_agent">>, <<"formatter_agent", NodeEND>>}

EdgesSkipFormatter ==
  {<<NodeSTART, "supervisor">>, <<"supervisor", NodeEND>>}

Edges ==
  {<<NodeSTART, "supervisor">>,
   <<"supervisor", "formatter_agent">>,
   <<"formatter_agent", NodeEND>>}

Succ(n) == {e[2] : e \in {x \in Edges : x[1] = n}}

Complete(n) == (active \ {n}) \cup Succ(n)

\* --------------------------------------------------------- run_graph

PartTextAnyType(p) ==
  IF p.isdict THEN (IF p.hastext THEN p.text ELSE <<>>) ELSE <<>>

PartText(p) ==
  IF p.isdict /\ p.type = "text"
  THEN (IF p.hastext THEN p.text ELSE <<>>)
  ELSE <<>>

RECURSIVE JoinParts(_)
JoinParts(parts) ==
  IF parts = <<>> THEN <<>>
  ELSE PartText(Head(parts)) \o JoinParts(Tail(parts))

RunGraphText(msgs) ==
  IF msgs = <<>> THEN <<>>
  ELSE LET content == msgs[Len(msgs)].content
       IN  IF content.islist THEN JoinParts(content.parts) ELSE content.text

NoReply == [set |-> FALSE, text |-> <<>>]

InvokeInputWithHistory(history, user_text) ==
  [i \in 1..Len(history) |->
     Message(i, IF history[i].role = "user" THEN "human" ELSE "ai",
             history[i].role, StrContent(history[i].content))]

InvokeInput(history, user_text) == <<HumanMessage(1, user_text)>>

\* ------------------------------------------------ supervisor sub-graph

TransferTo(agent) ==
  IF agent = "research_agent" THEN "transfer_to_research_agent"
  ELSE "transfer_to_calendar_agent"

\* The supervisor's model calls a handoff tool: its tool-call message and the
\* tool's message follow the history.
HandoffUpdate(log, agent) ==
  log \o <<AIMessage(Len(log) + 1, "supervisor", <<Tok(TransferTo(agent), NoEnv)>>),
           ToolMessage(Len(log) + 2, "supervisor", <<Tok("transferred", NoEnv)>>)>>

\* The envelope a work agent emits when it follows its output contract.
WorkerEnvelope(agent) ==
  IF agent = "research_agent"
  THEN Envelope("research", "search", TRUE, "objects")
  ELSE Envelope("calendar", "create", TRUE, "object")

\* The final message of a work agent: a well-formed RESULT_JSON block, a
\* RESULT_JSON block whose JSON does not parse, or (the calendar agent, whose
\* prompt asks for it when date, time or calendar is missing) a clarifying
\* question.
WorkerReplies(agent) ==
  {<<Tok("block", WorkerEnvelope(agent))>>, <<Tok("badblock", NoEnv)>>}
  \cup (IF agent = "calendar_agent" THEN {<<Tok("question", NoEnv)>>} ELSE {})

\* add_handoff_back_messages=True: the pair of messages that hands control
\* back follows the agent's own messages.
HandoffBackMessages(log, agent) ==
  <<AIMessage(Len(log) + 1, agent, <<Tok("transfer_back_to_supervisor", NoEnv)>>),
    ToolMessage(Len(log) + 2, agent, <<Tok("transferred_back", NoEnv)>>)>>

WorkerUpdateCollidingIds(log, agent, text) ==
  LET own == log \o <<AIMessage(1, agent, text)>>
  IN  own \o HandoffBackMessages(log \o <<AIMessage(Len(log) + 1, agent, text)>>, agent)

\* output_mode="full_history": the agent's whole history is returned.
WorkerUpdate(log, agent, text) ==
  LET own == log \o <<AIMessage(Len(log) + 1, agent, text)>>
  IN  own \o HandoffBackMessages(own, agent)

\* The supervisor's model answers without a tool call: its message is added
\* and the sub-graph ends.
SupervisorFinalUpdate(log) ==
  log \o <<AIMessage(Len(log) + 1, "supervisor", <<Tok("supervisor_final", NoEnv)>>)>>

\* ------------------------------------------------------------ formatter

HasBlock(m) ==
  \E j \in 1..Len(m.content.text) : m.content.text[j].k \in {"block", "badblock"}

BlockOf(m) ==
  m.content.text[CHOOSE j \in 1..Len(m.content.text) :
                   m.content.text[j].k \in {"block", "badblock"}]

FirstBlockIndex(log) ==
  IF \E i \in 1..Len(log) : HasBlock(log[i])
  THEN CHOOSE i \in 1..Len(log) :
         HasBlock(log[i]) /\ \A j \in 1..(i - 1) : ~HasBlock(log[j])
  ELSE 0

\* "find the most recent fenced JSON block labeled RESULT_JSON": 0 when the
\* conversation holds none.
LastBlockIndex(log) ==
  IF \E i \in 1..Len(log) : HasBlock(log[i])
  THEN CHOOSE i \in 1..Len(log) :
         HasBlock(log[i]) /\ \A j \in (i + 1)..Len(log) : ~HasBlock(log[j])
  ELSE 0

ConfirmOpsWithInfo == {"create", "update", "move", "delete", "info", "error"}

ConfirmOps == {"create", "update", "move", "delete"}

\* RENDERING RULES of the prompt, one predicate per bullet.
RuleMatches(row, e) ==
  CASE row = "calendar_search"  -> e.agent = "calendar" /\ e.op = "search"
    [] row = "calendar_confirm" -> e.agent = "calendar" /\ e.op \in ConfirmOps
    [] row = "calendar_error"   -> e.agent = "calendar" /\ e.ok = FALSE
    [] row = "research_list"    -> e.agent = "research" /\ e.ok = TRUE
    [] row = "research_none"    -> e.agent = "research" /\ e.ok = FALSE
    [] OTHER                    -> FALSE

AgentRows ==
  {"calendar_search", "calendar_confirm", "calendar_error",
   "research_list", "research_none"}

AgentRowsFor(e) == {row \in AgentRows : RuleMatches(row, e)}

\* "Fallback: if data is an array of objects": used when no agent rule applies.
MatchingRows(e) ==
  IF AgentRowsFor(e) # {} THEN AgentRowsFor(e)
  ELSE IF e.data = "objects" THEN {"fallback_table"}
  ELSE {}

\* What the formatter may answer where its prompt has no rule: the
\* "no tool output" explanation of the docstring, or any other text.
Unspecified == {Tok("no_output", NoEnv), Tok("other", NoEnv)}

FormatterOutputsFrom(log, i) ==
  IF i = 0 THEN Unspecified
  ELSE LET b == BlockOf(log[i])
       IN  IF b.k = "block" /\ MatchingRows(b.env) # {}
           THEN {Tok(row, b.env) : row \in MatchingRows(b.env)}
           ELSE Unspecified

FormatterOutputs(log) == FormatterOutputsFrom(log, LastBlockIndex(log))

FormatterUpdate(log, out) ==
  log \o <<AIMessage(Len(log) + 1, "formatter_agent", <<out>>)>>

\* -------------------------------------------------------------- actions

Init ==
  /\ session_messages = <<>>
  /\ messages = <<>>
  /\ active = {}
  /\ supNode = "none"
  /\ ran = <<>>
  /\ dispatched = <<>>
  /\ reply = NoReply

NumTurns == Cardinality({i \in 1..Len(session_messages) : session_messages[i].role = "user"})

\* main: a chat input is appended to the session and run_graph invokes the graph.
ChatInput(user_text) ==
  /\ active = {}
  /\ NumTurns < MaxTurns
  /\ LET history == Append(session_messages,
                           [role |-> "user", content |-> <<Tok(user_text, NoEnv)>>])
     IN  /\ session_messages' = history
         /\ messages' = AddMessages(<<>>, InvokeInput(history, user_text))
  /\ active' = Succ(NodeSTART)
  /\ supNode' = IF "supervisor" \in Succ(NodeSTART) THEN "supervisor" ELSE "none"
  /\ ran' = <<>>
  /\ dispatched' = <<>>
  /\ reply' = NoReply

SupervisorHandoff(agent) ==
  /\ "supervisor" \in active
  /\ supNode = "supervisor"
  /\ Len(dispatched) < MaxDispatch
  /\ messages' = AddMessages(messages, HandoffUpdate(messages, agent))
  /\ supNode' = agent
  /\ dispatched' = Append(dispatched, agent)
  /\ UNCHANGED <<session_messages, active, ran, reply>>

WorkerRun(agent, text) ==
  /\ "supervisor" \in active
  /\ supNode = agent
  /\ text \in WorkerReplies(agent)
  /\ messages' = AddMessages(messages, WorkerUpdate(messages, agent, text))
  /\ supNode' = "supervisor"
  /\ UNCHANGED <<session_messages, active, ran, dispatched, reply>>

SupervisorEnd ==
  /\ "supervisor" \in active
  /\ supNode = "supervisor"
  /\ messages' = AddMessages(messages, SupervisorFinalUpdate(messages))
  /\ supNode' = "none"
  /\ active' = Complete("supervisor")
  /\ ran' = Append(ran, "supervisor")
  /\ UNCHANGED <<session_messages, dispatched, reply>>

FormatterRun(out) ==
  /\ "formatter_agent" \in active
  /\ out \in FormatterOutputs(messages)
  /\ messages' = AddMessages(messages, FormatterUpdate(messages, out))
  /\ active' = Complete("formatter_agent")
  /\ ran' = Append(ran, "formatter_agent")
  /\ UNCHANGED <<session_messages, supNode, dispatched, reply>>

\* run_graph returns the text of the result and main appends it to the session.
Return ==
  /\ active = {NodeEND}
  /\ reply' = [set |-> TRUE, text |-> RunGraphText(messages)]
  /\ session_messages' = Append(session_messages,
                                [role |-> "assistant", content |-> RunGraphText(messages)])
  /\ active' = {}
  /\ UNCHANGED <<messages, supNode, ran, dispatched>>

Next ==
  \/ \E user_text \in {UserTextOf(NumTurns + 1)} : ChatInput(user_text)
  \/ \E agent \in Workers : SupervisorHandoff(agent)
  \/ \E agent \in Workers : \E text \in WorkerReplies(agent) : WorkerRun(agent, text)
  \/ SupervisorEnd
  \/ \E out \in FormatterOutputs(messages) : FormatterRun(out)
  \/ Return

Spec == Init /\ [][Next]_vars

\* ------------------------------------------- run_graph on any result

PartKinds ==
  {[isdict |-> TRUE,  type |-> "text",      hastext |-> TRUE,  text |-> <<Tok("a", NoEnv)>>],
   [isdict |-> TRUE,  type |-> "text",      hastext |-> TRUE,  text |-> <<Tok("b", NoEnv)>>],
   [isdict |-> TRUE,  type |-> "text",      hastext |-> FALSE, text |-> <<>>],
   [isdict |-> TRUE,  type |-> "image_url", hastext |-> TRUE,  text |-> <<Tok("c", NoEnv)>>],
   [isdict |-> FALSE, type |-> "str",       hastext |-> FALSE, text |-> <<Tok("d", NoEnv)>>]}

PartLists == UNION {[1..n -> PartKinds] : n \in 0..MaxParts}

Contents ==
  {StrContent(<<>>), StrContent(<<Tok("a", NoEnv), Tok("b", NoEnv)>>)}
  \cup {ListContent(parts) : parts \in PartLists}

\* What app.invoke may hand back to run_graph: no messages at all, or a log
\* whose last message carries a string or a list of content parts.
ResultLogs ==
  {<<>>} \cup {<<HumanMessage(1, UserTextOf(1)),
                 Message(2, "ai", "formatter_agent", content)>> : content \in Contents}

InitRunGraph ==
  /\ session_messages = <<[role |-> "user", content |-> <<Tok(UserTextOf(1), NoEnv)>>]>>
  /\ messages \in ResultLogs
  /\ active = {NodeEND}
  /\ supNode = "none"
  /\ ran = <<"supervisor", "formatter_agent">>
  /\ dispatched = <<>>
  /\ reply = NoReply

SpecRunGraph == InitRunGraph /\ [][Return]_vars

\* ------------------------------------- the formatter on any envelope

AgentOf(e) == IF e.agent = "research" THEN "research_agent" ELSE "calendar_agent"

\* The log of a turn with one hand-off whose work agent emitted envelope e.
LogWithEnvelope(e) ==
  SupervisorFinalUpdate(
    WorkerUpdate(HandoffUpdate(<<HumanMessage(1, UserTextOf(1))>>, AgentOf(e)),
                 AgentOf(e), <<Tok("block", e)>>))

InitRender ==
  /\ session_messages = <<[role |-> "user", content |-> <<Tok(UserTextOf(1), NoEnv)>>]>>
  /\ \E e \in SchemaEnvelopes :
       /\ messages = LogWithEnvelope(e)
       /\ dispatched = <<AgentOf(e)>>
  /\ active = {"formatter_agent"}
  /\ supNode = "none"
  /\ ran = <<"supervisor">>
  /\ reply = NoReply

NextRender == \E out \in FormatterOutputs(messages) : FormatterRun(out)

SpecRender == InitRender /\ [][NextRender]_vars

\* ------------------------------------------------------------ properties

FullRun == <<"supervisor", "formatter_agent">>

SupervisorFinished == Len(ran) >= 1

FormatterFinished == ran = FullRun

LastMessage == messages[Len(messages)]

\* The single token of the formatter's message, once the formatter has run.
FormatterOutput == LastMessage.content.text[1]

IsWorkerFinal(m) ==
  /\ m.name \in Workers
  /\ m.type = "ai"
  /\ m.content.text[1].k \in {"block", "badblock", "question"}

\* Index of the last final message of a work agent, 0 when there is none.
LastWorkerFinalIndex ==
  IF \E i \in 1..Len(messages) : IsWorkerFinal(messages[i])
  THEN CHOOSE i \in 1..Len(messages) :
         IsWorkerFinal(messages[i])
         /\ \A j \in (i + 1)..Len(messages) : ~IsWorkerFinal(messages[j])
  ELSE 0

ValidBlockIndices ==
  {i \in 1..Len(messages) : HasBlock(messages[i]) /\ BlockOf(messages[i]).k = "block"}

LatestValidIndex == CHOOSE i \in ValidBlockIndices : \A j \in ValidBlockIndices : j <= i

LatestBlockIsValid ==
  LastBlockIndex(messages) # 0 /\ LastBlockIndex(messages) \in ValidBlockIndices

\* C1: in every turn exactly one work agent is dispatched, whatever the
\* supervisor's model chooses: once the supervisor stage has finished, the
\* number of hand-offs of the turn is 1.
C1_ExactlyOneDispatch == SupervisorFinished => Len(dispatched) = 1

Rank(n) ==
  CASE n = NodeSTART -> 0
    [] n = "supervisor" -> 1
    [] n = "formatter_agent" -> 2
    [] OTHER -> 3

\* C2: the stages of a turn run in the fixed order supervisor, formatter_agent:
\* at most one stage is scheduled at a time, the formatter is scheduled only
\* after the supervisor has completed, each stage has run exactly once when
\* the graph reaches END and when run_graph returns, and every edge leads to a
\* later stage.
C2_FixedStageOrder ==
  /\ Cardinality(active) <= 1
  /\ IsPrefix(ran, FullRun)
  /\ "supervisor" \in active => ran = <<>>
  /\ "formatter_agent" \in active => ran = <<"supervisor">> /\ supNode = "none"
  /\ NodeEND \in active => ran = FullRun
  /\ reply.set => ran = FullRun
  /\ \A e \in Edges : Rank(e[1]) < Rank(e[2])

C2_Witness == active = {NodeEND} /\ ran = FullRun /\ Len(dispatched) = 1

\* C3: when the formatter starts after a work agent has run, the supervisor
\* has dispatched once only and no message authored by the supervisor follows
\* the work agent's final message in the log.
C3_RouterSilentAfterWorker ==
  ("formatter_agent" \in active /\ dispatched # <<>>) =>
     /\ Len(dispatched) = 1
     /\ \A i \in (LastWorkerFinalIndex + 1)..Len(messages) :
          messages[i].name # "supervisor"

\* The turn's work agent ended with a clarifying question and the log holds
\* no RESULT_JSON block.
QuestionTurn ==
  /\ LastWorkerFinalIndex # 0
  /\ messages[LastWorkerFinalIndex].content.text[1].k = "question"
  /\ LastBlockIndex(messages) = 0

\* C4 as stated: when the work agent ends with a clarifying question and no
\* envelope, the formatter does not produce the turn's output and the text
\* returned is the work agent's question.
C4_QuestionReturnedUnformatted ==
  (reply.set /\ QuestionTurn) =>
     /\ reply.text = messages[LastWorkerFinalIndex].content.text
     /\ LastMessage.name # "formatter_agent"

\* C4 as amended: when the work agent ends with a clarifying question and no
\* envelope, the formatter stage still runs, and the text returned is the
\* content of the formatter's message, the last message of the log.
C4_QuestionStillFormatted ==
  (reply.set /\ QuestionTurn) =>
     /\ ran = FullRun
     /\ LastMessage.name = "formatter_agent"
     /\ Len(messages) > LastWorkerFinalIndex
     /\ reply.text = LastMessage.content.text

C4_Witness == reply.set /\ QuestionTurn /\ Len(dispatched) = 1

\* C5: when the log that reaches the formatter holds no RESULT_JSON block, or
\* its most recent block holds malformed JSON, the formatter's output is the
\* fixed "no tool output found" message.
C5_FallbackWhenNoEnvelope ==
  (FormatterFinished /\ ~LatestBlockIsValid) =>
     FormatterOutput = Tok("no_output", NoEnv)

SelectedEnvelope ==
  IF LatestBlockIsValid THEN BlockOf(messages[LastBlockIndex(messages)]).env ELSE NoEnv

SameTriple(e, f) == e.agent = f.agent /\ e.op = f.op /\ e.ok = f.ok

\* C7 as stated: for every well-formed envelope the triple (agent, op, ok)
\* alone selects exactly one row of the rendering table, the fallback row
\* included.
C7_TripleSelectsOneRow ==
  SelectedEnvelope \in SchemaEnvelopes =>
     /\ Cardinality(MatchingRows(SelectedEnvelope)) = 1
     /\ \A f \in SchemaEnvelopes :
          SameTriple(SelectedEnvelope, f) => MatchingRows(f) = MatchingRows(SelectedEnvelope)

\* C7 as amended: for every well-formed envelope the agent-specific rows that
\* match are decided by (agent, op, ok) alone, but they are not always exactly
\* one.  A research envelope, and a calendar envelope with ok true and op among
\* search, create, update, move, delete, matches exactly one row.  A calendar
\* envelope with ok false matches the ok==false row and, for those five ops,
\* the row of its op as well.  A calendar envelope with ok true and op info or
\* error matches no agent-specific row: the fallback row renders it when its
\* data is an array of objects, and otherwise no row does.  The formatter's
\* output is a row that matches whenever one does.
C7_RowsByTriple ==
  LET e == SelectedEnvelope
      n == Cardinality(AgentRowsFor(e))
      opRow == e.op \in {"search", "create", "update", "move", "delete"}
  IN  e \in SchemaEnvelopes =>
        /\ \A f \in SchemaEnvelopes : SameTriple(e, f) => AgentRowsFor(f) = AgentRowsFor(e)
        /\ e.agent = "research" => n = 1
        /\ (e.agent = "calendar" /\ e.ok /\ opRow) => n = 1
        /\ (e.agent = "calendar" /\ ~e.ok) =>
             "calendar_error" \in AgentRowsFor(e) /\ n = (IF opRow THEN 2 ELSE 1)
        /\ (e.agent = "calendar" /\ e.ok /\ ~opRow) =>
             /\ n = 0
             /\ MatchingRows(e) = (IF e.data = "objects" THEN {"fallback_table"} ELSE {})
        /\ (FormatterFinished /\ MatchingRows(e) # {}) =>
             FormatterOutput.k \in MatchingRows(e) /\ FormatterOutput.env = e

C7_Witness ==
  /\ FormatterFinished
  /\ SelectedEnvelope = Envelope("calendar", "info", TRUE, "objects")
  /\ FormatterOutput = Tok("fallback_table", SelectedEnvelope)

RECURSIVE Flatten(_)
Flatten(texts) == IF texts = <<>> THEN <<>> ELSE Head(texts) \o Flatten(Tail(texts))

IsTextDict(p) == p.isdict /\ p.type = "text"

TextField(p) == IF p.hastext THEN p.text ELSE <<>>

\* C8: run_graph returns the content of the last message of the final log as
\* a string; for a list of parts, the concatenation in order of the 'text'
\* fields of exactly the parts that are dicts of type 'text'; for an empty
\* log, the empty string.
C8_ReturnedText ==
  reply.set =>
     reply.text =
       (IF Len(messages) = 0 THEN <<>>
        ELSE IF LastMessage.content.islist
        THEN LET texts == SelectSeq(LastMessage.content.parts, IsTextDict)
             IN  Flatten([i \in 1..Len(texts) |-> TextField(texts[i])])
        ELSE LastMessage.content.text)

C8_Witness ==
  /\ reply.set
  /\ messages # <<>>
  /\ LastMessage.content.islist
  /\ Len(LastMessage.content.parts) = 3
  /\ \E i \in 1..3 : LastMessage.content.parts[i].type = "image_url"
  /\ Len(reply.text) = 2

\* The node whose step is being taken while a turn is running.
ActiveStage ==
  IF "supervisor" \in active THEN supNode
  ELSE IF "formatter_agent" \in active THEN "formatter_agent"
  ELSE "none"

\* C9: within a turn every step leaves the messages already in the log
\* unchanged and in place and only adds messages at the end, and the
\* messages it adds are those of the stage that is active.
C9_AppendOnly ==
  [][active # {} =>
       /\ IsPrefix(messages, messages')
       /\ \A i \in (Len(messages) + 1)..Len(messages') : messages'[i].name = ActiveStage]_vars

C9_Witness ==
  /\ FormatterFinished
  /\ Len(dispatched) = 2
  /\ Len(messages) = 13

\* The supervisor is about to take its first step of the turn.
AtRouterStart ==
  active = {"supervisor"} /\ supNode = "supervisor" /\ dispatched = <<>>

\* C10: at the start of every turn the log given to the supervisor holds only
\* that turn's user message, while the session history holds the user and
\* assistant entries of every turn so far, in order.
C10_FreshLogPerTurn ==
  /\ Len(session_messages) = 2 * NumTurns - (IF active = {} THEN 0 ELSE 1)
  /\ \A i \in 1..Len(session_messages) :
       /\ session_messages[i].role = (IF i % 2 = 1 THEN "user" ELSE "assistant")
       /\ i % 2 = 1 => session_messages[i].content = <<Tok(UserTextOf((i + 1) \div 2), NoEnv)>>
  /\ AtRouterStart => messages = <<HumanMessage(1, UserTextOf(NumTurns))>>

C10_Witness ==
  /\ AtRouterStart
  /\ NumTurns = 2
  /\ Len(session_messages) = 3
  /\ session_messages[2].role = "assistant"

====
